---- MODULE Spec2Model ----
(***************************************************************************)
(* Chunked parquet export to a B2 bucket (src/data_pull_mssql.py,          *)
(* saved_chunked_parquet_b2) and the DuckDB read path over the same prefix *)
(* (src/test_duckdb_read.py, class B2DuckDBConnector).                     *)
(*                                                                         *)
(* The bucket prefix, the local file system and the two programs' local    *)
(* variables are the state.  Remote calls (authorize, get bucket, upload,  *)
(* download, list) succeed or raise by nondeterministic choice; local file *)
(* operations behave as the operating system defines them (os.remove of a  *)
(* missing file raises, os.rmdir of a non-empty directory raises).         *)
(*                                                                         *)
(* The libraries are taken to do what the code expects of them:            *)
(* download_file_by_name raises for an absent key and leaves no local file *)
(* when it raises; list_file_versions yields every stored version of every *)
(* key under the prefix, by name; SHOW VIEWS lists the registered views;   *)
(* closing a closed DuckDB connection does nothing.                        *)
(*                                                                         *)
(* Arithmetic: target_size_gb * 1024^3 is drawn from whole byte counts     *)
(* (target_size_gb is any positive number in the code), and the float      *)
(* expressions int(target_size_bytes / bytes_per_row) and                  *)
(* math.ceil(total_rows / rows_per_chunk) are computed exactly.            *)
(*                                                                         *)
(* Four specifications: SpecExport (export jobs into a fresh prefix),      *)
(* SpecRead (a connector on a prefix that export jobs have left, which     *)
(* does not change while the connector lives), SpecStartup (both programs  *)
(* up to their first object-store calls) and SpecTwoExports (two           *)
(* concurrent export calls on one machine, interleaved step by step).      *)
(***************************************************************************)
EXTENDS Integers, Sequences, FiniteSets, TLC

\* ------------------------------------------------------------------ bounds
MaxRows == 3          \* small tables have 0..MaxRows rows
MaxTarget == 2        \* target_size_gb * 1024^3 ranges over 1..MaxTarget bytes
MaxSampleBytes == 3   \* measured size of sample.parquet ranges over 1..MaxSampleBytes
MaxChunks == 3        \* jobs planning more chunks than this are not explored
MaxRuns == 1          \* calls of saved_chunked_parquet_b2 on the same prefix
MaxStored == 2        \* chunk ordinals 0..MaxStored-1 in a prefix a connector opens
MaxVersions == 2      \* stored versions of one key in a prefix a connector opens

\* ------------------------------------------------------- program constants
SampleCap == 10000    \* min(10000, df.height)
PadWidth == 4         \* chunk_{i:04d}

\* ------------------------------------------------------------------- state
VARIABLES
    env,            \* os.environ: [B2_KEY_ID, B2_APP_KEY], each "none" | "empty" | "set"
    objects,        \* bucket prefix: remote key -> number of stored versions (0: absent)
    manifest,       \* newest {prefix}/metadata.json: <<>> when absent, else <<body>>
    disk,           \* local file system: the paths [dir, name] that exist
    \* saved_chunked_parquet_b2
    epc,            \* position: "idle" | "auth" | "bucket" | "sample" | "count" | "loop" | "manifest"
    outcome,        \* of the last call: "none" | "config_error" | "caught" | "complete"
    runs,           \* calls made so far
    args,           \* [bucket_name, height, target, sample_file_size] of the current call
    rows_per_chunk, \* line 68
    num_chunks,     \* line 72
    i,              \* loop ordinal, line 77
    slices,         \* chunk_df.slice(start_idx, end_idx - start_idx) made so far: <<start, end>>
    attempts,       \* upload_local_file calls of this call, in order: [key, ok]
    expCalls,       \* object-store calls made by this call
    expWrote,       \* local paths this call created or wrote (makedirs, write_parquet, open 'w')
    peer,           \* the locals of a second, concurrent call while this one runs
    \* B2DuckDBConnector
    cpc,            \* "none" | "raised" (constructor raised) | "open" | "closed"
    cBucket,        \* self.bucket_name
    metadata,       \* self.metadata: [num_chunks, chunk_files]
    chunk_paths,    \* self.chunk_paths: sequence of local paths
    views,          \* SHOW VIEWS
    tables,         \* tables of the DuckDB connection
    conCalls,       \* object-store calls made by the connector
    downloads,      \* chunk keys downloaded to the end, one entry per download
    missed,         \* chunk keys requested with download_file_by_name while absent
    lastOp,         \* the last connector call: [op, raised, recreated, again, removals]
    removed         \* local paths close() removed, one entry per os.remove / os.rmdir

storeVars == <<objects, manifest>>
fsVars == <<disk>>
expVars == <<epc, outcome, runs, args, rows_per_chunk, num_chunks, i, slices,
             attempts, expCalls, expWrote>>
conVars == <<cpc, cBucket, metadata, chunk_paths, views, tables, conCalls,
             downloads, missed, lastOp, removed>>
vars == <<env, storeVars, fsVars, expVars, peer, conVars>>

\* ----------------------------------------------------------------- helpers
Min(a, b) == IF a <= b THEN a ELSE b

\* Python truthiness of an environment value or argument: None and "" are falsy.
Truthy(v) == v = "set"

\* math.ceil(a / b) for a >= 0, b >= 1
CeilDiv(a, b) == (a + b - 1) \div b

\* f"{i:04d}": the decimal digits of i, left-padded with zeros to PadWidth.
RECURSIVE Digits(_)
Digits(n) == IF n < 10 THEN <<n>> ELSE Append(Digits(n \div 10), n % 10)

RECURSIVE ZeroPad(_, _)
ZeroPad(ds, w) == IF Len(ds) >= w THEN ds ELSE ZeroPad(<<0>> \o ds, w)

Pad4(n) == ZeroPad(Digits(n), PadWidth)

\* f"{prefix}/chunk_{i:04d}.parquet" and f"{prefix}/metadata.json"
ChunkKey(n) == [stem |-> "chunk", digits |-> Pad4(n), ext |-> "parquet"]
MetadataKey == [stem |-> "metadata", digits |-> <<>>, ext |-> "json"]
SampleName == [stem |-> "sample", digits |-> <<>>, ext |-> "parquet"]

Ordinals == 0 .. (MaxChunks - 1)
ChunkKeys == {ChunkKey(n) : n \in Ordinals}

\* temp_dir = "/tmp/chunked_data"
ExpDir == "/tmp/chunked_data"
\* tempfile.mkdtemp(): a directory name no other call is given
ConDir == "mkdtemp"

\* A local path; the directory itself is the entry named DirEntry.
DirEntry == [stem |-> ".", digits |-> <<>>, ext |-> ""]
Path(d, name) == [dir |-> d, name |-> name]
DirExists(d) == Path(d, DirEntry) \in disk
FilesIn(d) == {p \in disk : p.dir = d /\ p.name # DirEntry}

ViewNames == {"b2_data", "v2"}
TableNames == {"optimized_data"}

NoArgs == [bucket_name |-> "none", height |-> 0, target |-> 1, sample_file_size |-> 1]
\* op: the method; raised: it raised; recreated: it executed CREATE OR REPLACE VIEW
\* for a name SHOW VIEWS already listed; again: close() on a closed connector;
\* removals: the os.remove and os.rmdir calls it made.
Op(op, raised, recreated, again, removals) ==
    [op |-> op, raised |-> raised, recreated |-> recreated, again |-> again,
     removals |-> removals]
NoOp == Op("none", FALSE, FALSE, FALSE, 0)
NoMetadata == [num_chunks |-> 0, chunk_files |-> <<>>]

\* ============================================== saved_chunked_parquet_b2
Heights == (0 .. MaxRows) \cup {SampleCap + 1}
Targets == 1 .. MaxTarget
SampleBytes == 1 .. MaxSampleBytes

\* line 51
SampleSize(height) == Min(SampleCap, height)

\* lines 62-68: int(target_size_gb * 1024^3 * 0.9 / (sample_file_size / sample_size))
RowsPerChunk(height, target, fsize) == (9 * target * SampleSize(height)) \div (10 * fsize)

\* The explored calls: those whose plan has at most MaxChunks chunks.
InBounds(height, target, fsize) ==
    IF SampleSize(height) = 0 THEN TRUE
    ELSE IF RowsPerChunk(height, target, fsize) = 0 THEN TRUE
    ELSE CeilDiv(height, RowsPerChunk(height, target, fsize)) <= MaxChunks

\* line 27: all([key_id, app_key, bucket_name])
ExpConfigOKNoBucket(bucket_name) == Truthy(env.key_id) /\ Truthy(env.app_key)
ExpConfigOK(bucket_name) ==
    Truthy(env.key_id) /\ Truthy(env.app_key) /\ Truthy(bucket_name)

\* lines 146-147: the outer handler prints and the function returns
Caught ==
    /\ epc' = "idle"
    /\ outcome' = "caught"

\* lines 13-33: the call, the credential check, os.makedirs
ExpCall(bucket_name, height, target, fsize) ==
    /\ epc = "idle"
    /\ runs < MaxRuns
    /\ InBounds(height, target, fsize)
    /\ runs' = runs + 1
    /\ args' = [bucket_name |-> bucket_name, height |-> height, target |-> target,
                sample_file_size |-> fsize]
    /\ rows_per_chunk' = 0
    /\ num_chunks' = 0
    /\ i' = 0
    /\ slices' = <<>>
    /\ attempts' = <<>>
    /\ expCalls' = {}
    /\ IF ExpConfigOK(bucket_name)
       THEN /\ disk' = disk \cup {Path(ExpDir, DirEntry)}
            /\ expWrote' = {Path(ExpDir, DirEntry)}
            /\ epc' = "auth"
            /\ outcome' = "none"
       ELSE /\ epc' = "idle"
            /\ outcome' = "config_error"
            /\ expWrote' = {}
            /\ UNCHANGED disk
    /\ UNCHANGED <<env, peer, storeVars, conVars>>

\* lines 36-43: b2_api.authorize_account
ExpAuthorize(ok) ==
    /\ epc = "auth"
    /\ expCalls' = expCalls \cup {"authorize"}
    /\ IF ok THEN epc' = "bucket" /\ UNCHANGED outcome ELSE Caught
    /\ UNCHANGED <<env, peer, storeVars, fsVars, conVars, runs, args, rows_per_chunk,
                   num_chunks, i, slices, attempts, expWrote>>

\* lines 45-47: b2_api.get_bucket_by_name
ExpGetBucket(ok) ==
    /\ epc = "bucket"
    /\ expCalls' = expCalls \cup {"get_bucket"}
    /\ IF ok THEN epc' = "sample" /\ UNCHANGED outcome ELSE Caught
    /\ UNCHANGED <<env, peer, storeVars, fsVars, conVars, runs, args, rows_per_chunk,
                   num_chunks, i, slices, attempts, expWrote>>

\* lines 49-68: write the sample, measure it, compute rows_per_chunk.
\* sample_file_size / sample_size raises ZeroDivisionError for an empty frame.
ExpSample ==
    /\ epc = "sample"
    /\ disk' = disk \cup {Path(ExpDir, SampleName)}
    /\ expWrote' = expWrote \cup {Path(ExpDir, SampleName)}
    /\ IF SampleSize(args.height) = 0
       THEN Caught /\ UNCHANGED rows_per_chunk
       ELSE /\ rows_per_chunk' = RowsPerChunk(args.height, args.target, args.sample_file_size)
            /\ epc' = "count"
            /\ UNCHANGED outcome
    /\ UNCHANGED <<env, peer, storeVars, conVars, runs, args, num_chunks, i, slices,
                   attempts, expCalls>>

\* line 72: math.ceil(total_rows / rows_per_chunk)
NumChunksFloor(total_rows, rpc) == total_rows \div rpc
NumChunksOf(total_rows, rpc) == CeilDiv(total_rows, rpc)

\* lines 70-74: the division raises ZeroDivisionError when rows_per_chunk is 0
ExpCount ==
    /\ epc = "count"
    /\ IF rows_per_chunk = 0
       THEN Caught /\ UNCHANGED num_chunks
       ELSE /\ num_chunks' = NumChunksOf(args.height, rows_per_chunk)
            /\ epc' = "loop"
            /\ UNCHANGED outcome
    /\ UNCHANGED <<env, peer, storeVars, fsVars, conVars, runs, args, rows_per_chunk, i,
                   slices, attempts, expCalls, expWrote>>

\* lines 78-79
StartIdx(n) == n * rows_per_chunk
EndIdx(n) == Min((n + 1) * rows_per_chunk, args.height)

\* line 82: df.slice(offset, length) is the rows [offset, min(offset + length, height))
Slice(offset, length) == <<offset, Min(offset + length, args.height)>>

\* lines 97-110: the inner handler catches every exception of the upload, so none
\* reaches the outer handler
UploadEscapesOnFailure(ok) == ~ok
UploadEscapes(ok) == FALSE

\* lines 107-113: a failed upload continues the loop before os.remove(chunk_path)
ChunkLeftAfter(ok, path) == IF ok THEN {} ELSE {path}

\* lines 77-113: one iteration of the chunk loop
ExpChunk(ok) ==
    /\ epc = "loop"
    /\ i < num_chunks
    /\ slices' = Append(slices, Slice(StartIdx(i), EndIdx(i) - StartIdx(i)))
    /\ expWrote' = expWrote \cup {Path(ExpDir, ChunkKey(i))}
    /\ expCalls' = expCalls \cup {"upload"}
    /\ attempts' = Append(attempts, [key |-> ChunkKey(i), ok |-> ok])
    /\ objects' = IF ok THEN [objects EXCEPT ![ChunkKey(i)] = @ + 1] ELSE objects
    /\ disk' = (disk \ {Path(ExpDir, ChunkKey(i))})
                  \cup ChunkLeftAfter(ok, Path(ExpDir, ChunkKey(i)))
    /\ IF UploadEscapes(ok)
       THEN Caught /\ UNCHANGED i
       ELSE i' = i + 1 /\ UNCHANGED <<epc, outcome>>
    /\ UNCHANGED <<env, peer, manifest, conVars, runs, args, rows_per_chunk, num_chunks>>

\* line 120: the manifest's chunk count
ManifestBody ==
    [num_chunks |-> num_chunks, total_rows |-> args.height,
     rows_per_chunk |-> rows_per_chunk]

\* line 116: os.remove(sample_path) raises FileNotFoundError when the file is gone
SampleRemoveRaises == Path(ExpDir, SampleName) \notin disk

\* lines 115-144: remove the sample, write and upload metadata.json, remove it
ExpManifest(ok) ==
    /\ epc = "loop"
    /\ i = num_chunks
    /\ IF SampleRemoveRaises
       THEN /\ Caught
            /\ UNCHANGED <<objects, manifest, disk, expWrote, expCalls, attempts>>
       ELSE /\ expWrote' = expWrote \cup {Path(ExpDir, MetadataKey)}
            /\ expCalls' = expCalls \cup {"upload"}
            /\ attempts' = Append(attempts, [key |-> MetadataKey, ok |-> ok])
            /\ IF ok
               THEN /\ objects' = [objects EXCEPT ![MetadataKey] = @ + 1]
                    /\ manifest' = <<ManifestBody>>
               ELSE UNCHANGED <<objects, manifest>>
            /\ disk' = disk \ {Path(ExpDir, SampleName), Path(ExpDir, MetadataKey)}
            /\ epc' = "idle"
            /\ outcome' = "complete"
    /\ UNCHANGED <<env, peer, conVars, runs, args, rows_per_chunk, num_chunks, i, slices>>

\* ===================================================== B2DuckDBConnector
Present(key) == key \in DOMAIN objects /\ objects[key] > 0

\* String order of two remote keys under the prefix: "chunk_<digits>.parquet"
\* sorts before "metadata.json"; two chunk keys compare digit by digit.
RECURSIVE DigitsLess(_, _)
DigitsLess(a, b) ==
    IF a = <<>> THEN b # <<>>
    ELSE IF b = <<>> THEN FALSE
    ELSE IF Head(a) # Head(b) THEN Head(a) < Head(b)
    ELSE DigitsLess(Tail(a), Tail(b))

KeyLess(a, b) ==
    IF a.stem # b.stem THEN a.stem = "chunk" ELSE DigitsLess(a.digits, b.digits)

RECURSIVE Repeat(_, _)
Repeat(x, n) == IF n = 0 THEN <<>> ELSE <<x>> \o Repeat(x, n - 1)

\* bucket.list_file_versions(prefix=...): every stored version of every key, by name
RECURSIVE ListFileVersions(_)
ListFileVersions(keys) ==
    IF keys = {} THEN <<>>
    ELSE LET k == CHOOSE x \in keys : \A y \in keys \ {x} : KeyLess(x, y)
         IN Repeat(k, objects[k]) \o ListFileVersions(keys \ {k})

RECURSIVE SelectSeqBy(_, _)
SelectSeqBy(s, e) ==
    IF s = <<>> THEN <<>>
    ELSE (IF Head(s).ext = e THEN <<Head(s)>> ELSE <<>>) \o SelectSeqBy(Tail(s), e)

\* lines 80-82: the names of the listed versions that end in '.parquet'
ChunkFiles == SelectSeqBy(ListFileVersions({k \in DOMAIN objects : objects[k] > 0}), "parquet")

\* lines 84-88
FallbackMetadata == [num_chunks |-> Len(ChunkFiles), chunk_files |-> ChunkFiles]

\* lines 63-74: the parsed manifest (json.dump wrote it, so it parses)
LoadedMetadata == [num_chunks |-> manifest[1].num_chunks, chunk_files |-> <<>>]

\* line 26: all([self.key_id, self.app_key, self.bucket_name])
ConConfigOK(bucket_name) ==
    Truthy(env.key_id) /\ Truthy(env.app_key) /\ Truthy(bucket_name)

\* lines 15-41: the constructor.  authOk, bucketOk: _init_b2_connection's calls
\* succeed; getOk: the metadata download succeeds when the key is present;
\* listOk: list_file_versions succeeds.
ConNew(bucket_name, authOk, bucketOk, getOk, listOk) ==
    /\ cpc = "none"
    /\ cBucket' = bucket_name
    /\ IF ~ConConfigOK(bucket_name)
       THEN /\ cpc' = "raised"
            /\ UNCHANGED <<conCalls, metadata, disk>>
       ELSE IF ~authOk
       THEN /\ cpc' = "raised"
            /\ conCalls' = {"authorize"}
            /\ UNCHANGED <<metadata, disk>>
       ELSE IF ~bucketOk
       THEN /\ cpc' = "raised"
            /\ conCalls' = {"authorize", "get_bucket"}
            /\ UNCHANGED <<metadata, disk>>
       ELSE IF Present(MetadataKey) /\ getOk
       THEN /\ cpc' = "open"
            /\ conCalls' = {"authorize", "get_bucket", "download"}
            /\ metadata' = LoadedMetadata
            /\ disk' = disk \cup {Path(ConDir, DirEntry)}
       ELSE IF listOk
       THEN /\ cpc' = "open"
            /\ conCalls' = {"authorize", "get_bucket", "download", "list"}
            /\ metadata' = FallbackMetadata
            /\ disk' = disk \cup {Path(ConDir, DirEntry)}
       ELSE /\ cpc' = "raised"
            /\ conCalls' = {"authorize", "get_bucket", "download", "list"}
            /\ UNCHANGED <<metadata, disk>>
    /\ lastOp' = Op("__init__", cpc' = "raised", FALSE, FALSE, 0)
    /\ UNCHANGED <<env, peer, storeVars, expVars, chunk_paths, views, tables, downloads,
                   missed, removed>>

\* lines 99-107: the loop stops at the first download that raises: the key is
\* absent, the transfer fails (ordinal failAt), or the temporary directory is gone.
RECURSIVE Fetched(_, _, _)
Fetched(n, num, failAt) ==
    IF n >= num \/ n = failAt \/ ~Present(ChunkKey(n)) \/ ~DirExists(ConDir)
    THEN n
    ELSE Fetched(n + 1, num, failAt)

\* line 111: if not self.chunk_paths
NeedDownloadAlways == TRUE
NeedDownload == chunk_paths = <<>>

\* line 92 (limit is None in every call of this class)
NumChunks == metadata.num_chunks

Got(failAt) == IF NeedDownload THEN Fetched(0, NumChunks, failAt) ELSE 0
DownloadRaised(failAt) == NeedDownload /\ Got(failAt) < NumChunks
\* the chunk key whose download raised because the key is not in the bucket
MissedBy(failAt) ==
    IF DownloadRaised(failAt) /\ Got(failAt) # failAt /\ ~Present(ChunkKey(Got(failAt)))
    THEN {ChunkKey(Got(failAt))}
    ELSE {}

\* lines 98-107: self.chunk_paths after _download_chunks
PathsAfter(failAt) ==
    IF NeedDownload
    THEN [n \in 1 .. Got(failAt) |-> Path(ConDir, ChunkKey(n - 1))]
    ELSE chunk_paths

\* lines 109-130: create_unified_view raises when the download raised, when no
\* chunk path is held, or when the DuckDB connection is closed
ViewRaised(failAt) ==
    DownloadRaised(failAt) \/ PathsAfter(failAt) = <<>> \/ cpc # "open"

\* lines 109-130: the state left by create_unified_view(view_name), raising or not
CreateUnifiedView(view_name, failAt) ==
    /\ chunk_paths' = PathsAfter(failAt)
    /\ disk' = disk \cup {Path(ConDir, ChunkKey(n - 1)) : n \in 1 .. Got(failAt)}
    /\ downloads' = downloads \o [n \in 1 .. Got(failAt) |-> ChunkKey(n - 1)]
    /\ missed' = missed \cup MissedBy(failAt)
    /\ conCalls' = IF NeedDownload /\ NumChunks > 0
                   THEN conCalls \cup {"download"} ELSE conCalls
    /\ views' = IF ViewRaised(failAt) THEN views ELSE views \cup {view_name}

\* lines 135, 157, 166, 174: if view_name not in self.list_views()
NeedsView(view_name) == view_name \notin views

\* the ordinal whose transfer fails; NumChunks: none does
FailPoints == IF NeedDownload THEN 0 .. NumChunks ELSE {NumChunks}

\* lines 109-130, called by the user
ConCreateView(view_name, failAt) ==
    /\ cpc \in {"open", "closed"}
    /\ CreateUnifiedView(view_name, failAt)
    /\ lastOp' = Op("create_unified_view", ViewRaised(failAt),
                    ~ViewRaised(failAt) /\ view_name \in views, FALSE, 0)
    /\ UNCHANGED <<env, peer, storeVars, expVars, cpc, cBucket, metadata, tables, removed>>

\* lines 132-147, 155-162, 164-170: execute_query, get_schema, get_sample.
\* list_views raises on a closed connection; the statement itself may raise
\* (stmtOk), which changes nothing.
ConQuery(op, view_name, failAt, stmtOk) ==
    /\ cpc \in {"open", "closed"}
    /\ IF cpc = "closed"
       THEN /\ lastOp' = Op(op, TRUE, FALSE, FALSE, 0)
            /\ UNCHANGED <<chunk_paths, disk, downloads, missed, conCalls, views>>
       ELSE IF NeedsView(view_name)
       THEN /\ CreateUnifiedView(view_name, failAt)
            /\ lastOp' = Op(op, ViewRaised(failAt) \/ ~stmtOk,
                            ~ViewRaised(failAt) /\ view_name \in views, FALSE, 0)
       ELSE /\ lastOp' = Op(op, ~stmtOk, FALSE, FALSE, 0)
            /\ UNCHANGED <<chunk_paths, disk, downloads, missed, conCalls, views>>
    /\ UNCHANGED <<env, peer, storeVars, expVars, cpc, cBucket, metadata, tables, removed>>

\* lines 172-181: create_optimized_table; CREATE TABLE raises for an existing name
ConOptimize(table_name, view_name, failAt) ==
    /\ cpc \in {"open", "closed"}
    /\ IF cpc = "closed"
       THEN /\ lastOp' = Op("create_optimized_table", TRUE, FALSE, FALSE, 0)
            /\ UNCHANGED <<chunk_paths, disk, downloads, missed, conCalls, views, tables>>
       ELSE IF NeedsView(view_name)
       THEN /\ CreateUnifiedView(view_name, failAt)
            /\ tables' = IF ViewRaised(failAt) THEN tables ELSE tables \cup {table_name}
            /\ lastOp' = Op("create_optimized_table",
                            ViewRaised(failAt) \/ table_name \in tables,
                            ~ViewRaised(failAt) /\ view_name \in views, FALSE, 0)
       ELSE /\ tables' = tables \cup {table_name}
            /\ lastOp' = Op("create_optimized_table", table_name \in tables, FALSE, FALSE, 0)
            /\ UNCHANGED <<chunk_paths, disk, downloads, missed, conCalls, views>>
    /\ UNCHANGED <<env, peer, storeVars, expVars, cpc, cBucket, metadata, removed>>

\* line 191: if os.path.exists(path)
ShouldRemoveAlways(path) == TRUE
ShouldRemove(path) == path \in disk

\* lines 190-192: os.remove raises FileNotFoundError for a path that is gone; the
\* loop removes the paths before the first one that raises
RECURSIVE RemoveUpTo(_)
RemoveUpTo(n) ==
    IF n > Len(chunk_paths) THEN n
    ELSE IF ShouldRemove(chunk_paths[n]) /\ chunk_paths[n] \notin disk THEN n
    ELSE RemoveUpTo(n + 1)

RemoveRaised == RemoveUpTo(1) <= Len(chunk_paths)
RemovedFiles == SelectSeq(SubSeq(chunk_paths, 1, RemoveUpTo(1) - 1), ShouldRemove)
DiskAfterRemove == disk \ {RemovedFiles[n] : n \in 1 .. Len(RemovedFiles)}
\* lines 194-195: os.rmdir raises OSError for a directory that is not empty
RmdirCalled == ~RemoveRaised /\ Path(ConDir, DirEntry) \in DiskAfterRemove
RmdirRaised == RmdirCalled /\ \E p \in DiskAfterRemove : p.dir = ConDir /\ p.name # DirEntry

\* lines 183-196: close(); closing a closed DuckDB connection does nothing
ConClose ==
    /\ cpc \in {"open", "closed"}
    /\ cpc' = "closed"
    /\ disk' = IF RmdirCalled /\ ~RmdirRaised
               THEN DiskAfterRemove \ {Path(ConDir, DirEntry)}
               ELSE DiskAfterRemove
    /\ removed' = removed \o RemovedFiles
                    \o (IF RmdirCalled /\ ~RmdirRaised THEN <<Path(ConDir, DirEntry)>> ELSE <<>>)
    /\ lastOp' = Op("close", RemoveRaised \/ RmdirRaised, FALSE, cpc = "closed",
                    Len(RemovedFiles) + (IF RemoveRaised THEN 1 ELSE 0)
                        + (IF RmdirCalled THEN 1 ELSE 0))
    /\ UNCHANGED <<env, peer, storeVars, expVars, cBucket, metadata, chunk_paths, views,
                   tables, conCalls, downloads, missed>>

\* ================================================================ system
EnvValues == {"none", "empty", "set"}

\* The locals of a call of saved_chunked_parquet_b2 as one record.
Locals ==
    [epc |-> epc, outcome |-> outcome, runs |-> runs, args |-> args,
     rows_per_chunk |-> rows_per_chunk, num_chunks |-> num_chunks, i |-> i,
     slices |-> slices, attempts |-> attempts, expCalls |-> expCalls,
     expWrote |-> expWrote]

\* the locals of a caller that has made no call yet
NoCall ==
    [epc |-> "idle", outcome |-> "none", runs |-> 0, args |-> NoArgs,
     rows_per_chunk |-> 0, num_chunks |-> 0, i |-> 0, slices |-> <<>>,
     attempts |-> <<>>, expCalls |-> {}, expWrote |-> {}]

\* The state before any call: an empty prefix, an empty local disk.
InitCommon ==
    /\ peer = NoCall
    /\ env \in [key_id : EnvValues, app_key : EnvValues]
    /\ disk = {}
    /\ epc = "idle"
    /\ outcome = "none"
    /\ runs = 0
    /\ args = NoArgs
    /\ rows_per_chunk = 0
    /\ num_chunks = 0
    /\ i = 0
    /\ slices = <<>>
    /\ attempts = <<>>
    /\ expCalls = {}
    /\ expWrote = {}
    /\ cpc = "none"
    /\ cBucket = "none"
    /\ metadata = NoMetadata
    /\ chunk_paths = <<>>
    /\ views = {}
    /\ tables = {}
    /\ conCalls = {}
    /\ downloads = <<>>
    /\ missed = {}
    /\ lastOp = NoOp
    /\ removed = <<>>

EmptyPrefix == [k \in ChunkKeys \cup {MetadataKey} |-> 0]

\* ---- the export side: jobs run one after another into a fresh prefix
InitExport ==
    /\ InitCommon
    /\ objects = EmptyPrefix
    /\ manifest = <<>>

NextExport ==
    \/ \E b \in EnvValues, h \in Heights, t \in Targets, f \in SampleBytes : ExpCall(b, h, t, f)
    \/ \E ok \in BOOLEAN : ExpAuthorize(ok)
    \/ \E ok \in BOOLEAN : ExpGetBucket(ok)
    \/ ExpSample
    \/ ExpCount
    \/ \E ok \in BOOLEAN : ExpChunk(ok)
    \/ \E ok \in BOOLEAN : ExpManifest(ok)

SpecExport == InitExport /\ [][NextExport]_vars

\* ---- the read side: a connector opened on a prefix that export jobs have left.
\* A job uploads any subset of its chunks (uploads fail independently) and then
\* its manifest or not; a re-run stores one more version of each key it uploads.
StoredKeys == {ChunkKey(n) : n \in 0 .. (MaxStored - 1)}

\* the manifest of a job that exported n rows one row per chunk
ManifestOfRows(n) == [num_chunks |-> n, total_rows |-> n, rows_per_chunk |-> 1]

LeftByExports(objs, man) ==
    /\ objs[MetadataKey] = (IF man = <<>> THEN 0 ELSE 1)
    /\ man # <<>> =>
          \A n \in 0 .. (MaxStored - 1) :
              n >= man[1].num_chunks => objs[ChunkKey(n)] < MaxVersions

InitRead ==
    /\ InitCommon
    /\ objects \in [StoredKeys \cup {MetadataKey} -> 0 .. MaxVersions]
    /\ manifest \in {<<ManifestOfRows(n)>> : n \in 1 .. MaxStored} \cup {<<>>}
    /\ LeftByExports(objects, manifest)

QueryOps == {"execute_query", "get_schema", "get_sample"}

NextRead ==
    \/ \E b \in EnvValues, a, g, m, l \in BOOLEAN : ConNew(b, a, g, m, l)
    \/ \E v \in ViewNames, n \in FailPoints : ConCreateView(v, n)
    \/ \E op \in QueryOps, v \in ViewNames, n \in FailPoints, ok \in BOOLEAN :
           ConQuery(op, v, n, ok)
    \/ \E t \in TableNames, v \in ViewNames, n \in FailPoints : ConOptimize(t, v, n)
    \/ ConClose

SpecRead == InitRead /\ [][NextRead]_vars

\* ---- start-up: both programs from their call to their first object-store calls
NextStartup ==
    \/ \E b \in EnvValues, h \in Heights, t \in Targets, f \in SampleBytes : ExpCall(b, h, t, f)
    \/ \E ok \in BOOLEAN : ExpAuthorize(ok)
    \/ \E ok \in BOOLEAN : ExpGetBucket(ok)
    \/ \E b \in EnvValues, a, g, m, l \in BOOLEAN : ConNew(b, a, g, m, l)

SpecStartup == InitExport /\ [][NextStartup]_vars

\* ---- two concurrent calls of saved_chunked_parquet_b2 (two threads or two
\* processes on one machine) into one prefix.  Each has its own locals; the bucket
\* and the local file system are shared.  The scheduler may suspend the running
\* call between any two steps and resume the other one.
Preempt ==
    /\ peer' = Locals
    /\ epc' = peer.epc
    /\ outcome' = peer.outcome
    /\ runs' = peer.runs
    /\ args' = peer.args
    /\ rows_per_chunk' = peer.rows_per_chunk
    /\ num_chunks' = peer.num_chunks
    /\ i' = peer.i
    /\ slices' = peer.slices
    /\ attempts' = peer.attempts
    /\ expCalls' = peer.expCalls
    /\ expWrote' = peer.expWrote
    /\ UNCHANGED <<env, storeVars, fsVars, conVars>>

InitTwoExports ==
    /\ InitExport
    /\ Truthy(env.key_id)
    /\ Truthy(env.app_key)

\* Each of the two callers makes one call, with the smallest target and the
\* smallest sample file: the two plans differ by the frame's height only.
NextTwoExports ==
    \/ \E b \in EnvValues, h \in Heights : runs = 0 /\ ExpCall(b, h, 1, 1)
    \/ \E ok \in BOOLEAN : ExpAuthorize(ok)
    \/ \E ok \in BOOLEAN : ExpGetBucket(ok)
    \/ ExpSample
    \/ ExpCount
    \/ \E ok \in BOOLEAN : ExpChunk(ok)
    \/ \E ok \in BOOLEAN : ExpManifest(ok)
    \/ Preempt

SpecTwoExports == InitTwoExports /\ [][NextTwoExports]_vars

\* ================================================================ claims
\* ---------------------------------------------------------------- export
ViewOps == QueryOps \cup {"create_unified_view", "create_optimized_table"}

\* C1: a run that reached the chunk loop attempts the upload of every ordinal
\* 0..num_chunks-1 exactly once, in increasing order, whichever uploads fail, then
\* attempts metadata.json, and returns only after that attempt.
C1_ManifestLast ==
    num_chunks > 0 =>
        /\ epc \in {"loop", "idle"}
        /\ Len(attempts) = (IF epc = "loop" THEN i ELSE num_chunks + 1)
        /\ \A k \in 1 .. Len(attempts) :
              attempts[k].key = (IF k <= num_chunks THEN ChunkKey(k - 1) ELSE MetadataKey)
        /\ epc = "idle" => outcome = "complete"

\* a three-chunk job whose first and last uploads failed, after it returned
C1_Witness ==
    /\ outcome = "complete"
    /\ num_chunks = 3
    /\ Len(attempts) = 4
    /\ ~attempts[1].ok /\ attempts[2].ok /\ ~attempts[3].ok

\* C2: a manifest in the bucket with num_chunks = n implies that every key
\* chunk_0000 .. chunk_{n-1} is in the bucket.
C2_ManifestImpliesChunks ==
    manifest # <<>> =>
        \A n \in 0 .. (manifest[1].num_chunks - 1) : Present(ChunkKey(n))

RECURSIVE SumSizes(_)
SumSizes(ss) == IF ss = <<>> THEN 0 ELSE (Head(ss)[2] - Head(ss)[1]) + SumSizes(Tail(ss))

\* C3: for R >= 1 rows and P >= 1 rows per chunk the loop makes ceil(R/P) chunks
\* with the distinct keys of ordinals 0..ceil(R/P)-1; chunk n covers rows
\* [n*P, min((n+1)*P, R)): contiguous slices from row 0 to row R, P rows in every
\* chunk but the last, 1..P rows in the last, R rows in all.
C3_Chunking ==
    epc = "loop" =>
        LET R == args.height
            P == rows_per_chunk
        IN /\ R >= 1 /\ P >= 1
           /\ Len(slices) = i
           /\ i <= num_chunks
           /\ (num_chunks - 1) * P < R /\ R <= num_chunks * P
           /\ \A k \in 1 .. i :
                 /\ slices[k][1] = (IF k = 1 THEN 0 ELSE slices[k - 1][2])
                 /\ slices[k][2] - slices[k][1] = (IF k < num_chunks THEN P ELSE R - (k - 1) * P)
                 /\ slices[k][2] - slices[k][1] \in 1 .. P
           /\ \A k, l \in 1 .. i : k # l => attempts[k].key # attempts[l].key
           /\ i = num_chunks => slices[i][2] = R /\ SumSizes(slices) = R

\* the loop has finished three chunks of a table longer than the sample, the last
\* one short
C3_Witness ==
    /\ epc = "loop"
    /\ i = num_chunks
    /\ num_chunks = 3
    /\ args.height > SampleCap
    /\ slices[3][2] - slices[3][1] < rows_per_chunk

\* C4: the chunk-count computation and the chunk loop are reached only with
\* rows_per_chunk >= 1.
C4_RowsPerChunkPositive ==
    epc \in {"count", "loop"} => rows_per_chunk >= 1

\* C7: after saved_chunked_parquet_b2 has returned, on any outcome, no file it
\* staged is left in its temporary directory.
C7_NoStagingLeft ==
    (epc = "idle" /\ runs > 0) => FilesIn(ExpDir) = {}

\* ------------------------------------------------------------------ read
\* C5: a connector that parsed the manifest never requests a chunk key that is
\* not in the bucket (it re-derives the chunk list when the manifest claims
\* more chunks than exist).
C5_MismatchFallsBack ==
    (cpc \in {"open", "closed"} /\ "list" \notin conCalls) => missed = {}

RECURSIVE SortKeys(_)
SortKeys(keys) ==
    IF keys = {} THEN <<>>
    ELSE LET k == CHOOSE x \in keys : \A y \in keys \ {x} : KeyLess(x, y)
         IN <<k>> \o SortKeys(keys \ {k})

\* C6: a connector that fell back to listing takes as its chunk keys exactly the
\* distinct keys under the prefix that end in '.parquet', in string order.
C6_FallbackListsKeys ==
    (cpc \in {"open", "closed"} /\ "list" \in conCalls) =>
        [n \in 1 .. NumChunks |-> ChunkKey(n - 1)]
            = SortKeys({k \in DOMAIN objects : objects[k] > 0 /\ k.ext = "parquet"})

\* C8: a close() on a closed connector does not raise and removes nothing, and no
\* staged file or directory is removed twice.
C8_CloseIdempotent ==
    /\ (lastOp.op = "close" /\ lastOp.again) =>
          (~lastOp.raised /\ lastOp.removals = 0)
    /\ \A a, b \in 1 .. Len(removed) : a # b => removed[a] # removed[b]

\* two staged chunks and the directory were removed, and close() was called again
C8_Witness ==
    /\ lastOp.op = "close"
    /\ lastOp.again
    /\ Len(removed) = 3

\* the parts of C9 that hold as stated: the constructor downloads no chunk and
\* registers no view; a view or query call that returns leaves the chunks staged
\* and a view registered; no chunk key is downloaded twice
Materialization ==
    /\ lastOp.op = "__init__" => (downloads = <<>> /\ views = {} /\ chunk_paths = <<>>)
    /\ (lastOp.op \in ViewOps /\ ~lastOp.raised) => (views # {} /\ chunk_paths # <<>>)
    /\ \A a, b \in 1 .. Len(downloads) : a # b => downloads[a] # downloads[b]

ConfigGiven(bucket_name) ==
    env.key_id = "set" /\ env.app_key = "set" /\ bucket_name = "set"

\* C10: with the key id, the application key or the bucket name missing,
\* saved_chunked_parquet_b2 returns with the configuration error and the
\* constructor raises, each before any object-store call and before creating any
\* directory or file.
C10_ConfigFatal ==
    /\ (runs > 0 /\ ~ConfigGiven(args.bucket_name)) =>
          /\ epc = "idle"
          /\ outcome = "config_error"
          /\ expCalls = {}
          /\ expWrote = {}
    /\ (cpc # "none" /\ ~ConfigGiven(cBucket)) =>
          /\ cpc = "raised"
          /\ conCalls = {}
          /\ ~DirExists(ConDir)

\* both were called with the keys set and an empty bucket name, and both stopped
C10_Witness ==
    /\ env.key_id = "set" /\ env.app_key = "set"
    /\ outcome = "config_error" /\ args.bucket_name = "empty"
    /\ cpc = "raised" /\ cBucket = "empty"
    /\ disk = {}

\* ----------------------------------------------------------- concurrency
\* a call is running from os.makedirs (line 33) until it returns
Running(l) == l.epc # "idle"

\* the directories a call staged files in
StagingDirs(l) == {p.dir : p \in l.expWrote}

\* the staged files a running call still relies on: sample.parquet, from its
\* write (line 56) to its removal by the same call (line 116)
LiveFiles(l) == {p \in l.expWrote : p.name = SampleName /\ l.epc \in {"count", "loop"}}

\* no file is the live staged file of both calls (neither call overwrote the
\* other's file)
NoSharedLiveFile == LiveFiles(Locals) \cap LiveFiles(peer) = {}

\* a live staged file is on the disk (the other call did not delete it)
LiveFilesExist == (LiveFiles(Locals) \cup LiveFiles(peer)) \subseteq disk

\* C11: two concurrently running calls of saved_chunked_parquet_b2 have distinct
\* staging directories, so neither overwrites nor deletes a staged file the
\* other one wrote and still uses.
C11_StagingExclusive ==
    /\ (Running(Locals) /\ Running(peer)) =>
           StagingDirs(Locals) \cap StagingDirs(peer) = {}
    /\ NoSharedLiveFile
    /\ LiveFilesExist

\* ------------------------------------------------------------ partial view
\* C12: whenever a view is registered in the connector, self.chunk_paths holds one
\* path per chunk of the metadata (len(chunk_paths) = num_chunks); a retry after a
\* download that failed part-way never registers a view over the chunks fetched
\* before the failure.
C12_ViewSpansAllChunks ==
    views # {} => Len(chunk_paths) = metadata.num_chunks
====
